---- MODULE Spec2Model ----
(***************************************************************************)
(* Model of the todo application: the Flask API (src/app.py) and the CLI   *)
(* (src/todo.py).  Each front-end keeps its own JSON file holding the      *)
(* whole task collection; every operation loads it, changes the list in    *)
(* memory and overwrites the file.                                         *)
(***************************************************************************)
EXTENDS Integers, Sequences, FiniteSets, TLC

VARIABLES
    apiFile,   \* content of app.py's TODO_FILE: a sequence of task records
    cliFile,   \* content of todo.py's TODO_FILE: a sequence of task records
    resp,      \* outcome reported by the last operation
    today,     \* date.today(), as a proleptic Gregorian ordinal
    probe,     \* last direct call of the classifier: its inputs and outputs
    frontend,  \* what this run drives: "api", "cli", the "classifier" alone,
               \* the API under concurrent requests ("api_race"), or the API
               \* with a log of the ids it gave out ("api_ids")
    inflight,  \* per server worker: the request it is handling and the list it loaded
    served,    \* number of requests the workers have taken up
    issued     \* the ids get_next_id has given to new records, in order

vars == <<apiFile, cliFile, resp, today, probe, frontend, inflight, served, issued>>

----------------------------------------------------------------------------
(* Bounds of the model.                                                    *)

\* longest collection an add is explored on
MaxTodos == 3
\* days the clock may advance while the classifier is probed
MaxTicks == 4
\* requests the workers take up in one run of the concurrent server
MaxRequests == 4
\* ids handed out in one run of the API with its id log
MaxIssued == 4

----------------------------------------------------------------------------
(* Python values.  None and an optional value are one-element-or-empty     *)
(* tuples, so that every field keeps one TLA+ type.                        *)

None == <<>>

Some(x) == <<x>>

(* A JSON / Python scalar used as a date or effort text.  kind is          *)
(*   "empty"    the empty string                                           *)
(*   "none"     None (JSON null)                                           *)
(*   "number"   a number a: not a string at all                            *)
(*   "dash"     the text a-b-c,  "slash" the text a/b/c; pad tells whether *)
(*              one-digit day and month fields are written with a leading  *)
(*              zero; a year is always written with four digits            *)
(*   "today", "tomorrow"   those words                                     *)
(*   "rel"      the text <a>d                                              *)
(*   "word"     any other text, with a telling the texts apart             *)
Text(kind, a, b, c, pad) == [kind |-> kind, a |-> a, b |-> b, c |-> c, pad |-> pad]

EmptyStr == Text("empty", 0, 0, 0, FALSE)

NoneText == Text("none", 0, 0, 0, FALSE)

Number(n) == Text("number", n, 0, 0, FALSE)

Dash(a, b, c, pad) == Text("dash", a, b, c, pad)

Slash(a, b, c, pad) == Text("slash", a, b, c, pad)

Word(n) == Text("word", n, 0, 0, FALSE)

Rel(n) == Text("rel", n, 0, 0, FALSE)

\* isinstance(t, str)
IsStr(t) == t.kind \notin {"none", "number"}

\* Python truthiness of the value: `if t` / `not t`
Truthy(t) ==
    CASE t.kind = "empty" -> FALSE
      [] t.kind = "none" -> FALSE
      [] t.kind = "number" -> t.a # 0
      [] OTHER -> TRUE

----------------------------------------------------------------------------
(* The calendar of datetime.date.                                          *)

IsLeap(y) == y % 4 = 0 /\ (y % 100 # 0 \/ y % 400 = 0)

DaysInMonth(y, m) ==
    CASE m \in {1, 3, 5, 7, 8, 10, 12} -> 31
      [] m \in {4, 6, 9, 11} -> 30
      [] OTHER -> IF IsLeap(y) THEN 29 ELSE 28

DaysBeforeYear(y) ==
    (y - 1) * 365 + ((y - 1) \div 4) - ((y - 1) \div 100) + ((y - 1) \div 400)

RECURSIVE DaysBeforeMonth(_, _)
DaysBeforeMonth(y, m) ==
    IF m <= 1 THEN 0 ELSE DaysBeforeMonth(y, m - 1) + DaysInMonth(y, m - 1)

\* date(y, m, d).toordinal()
Ymd2Ord(y, m, d) == DaysBeforeYear(y) + DaysBeforeMonth(y, m) + d

\* a year field of exactly four digits, a month, a day of that month
ValidYmd(y, m, d) ==
    /\ y \in 1000..9999
    /\ m \in 1..12
    /\ d \in 1..DaysInMonth(y, m)

\* the years the model's dates fall in
Years == 2023..2025

\* date.fromordinal(n): the <<y, m, d>> of ordinal n
Ord2Ymd(n) ==
    LET y == CHOOSE yy \in Years : DaysBeforeYear(yy) < n /\ n <= DaysBeforeYear(yy + 1)
        m == CHOOSE mm \in 1..12 :
                 /\ DaysBeforeMonth(y, mm) < n - DaysBeforeYear(y)
                 /\ n - DaysBeforeYear(y) <= DaysBeforeMonth(y, mm) + DaysInMonth(y, mm)
    IN  <<y, m, n - DaysBeforeYear(y) - DaysBeforeMonth(y, m)>>

\* d.strftime("%Y-%m-%d"): zero-padded fields
Strftime(n) == LET t == Ord2Ymd(n) IN Dash(t[1], t[2], t[3], TRUE)

(* datetime.strptime(text, fmt) for the four formats the code uses.  The   *)
(* result is [exc, ord]: exc is "none" with the date's ordinal, or the     *)
(* exception raised.                                                       *)
Ok(n) == [exc |-> "none", ord |-> n]

Raise(e) == [exc |-> e, ord |-> 0]

Strptime(t, fmt) ==
    IF ~IsStr(t) THEN Raise("TypeError")
    ELSE CASE fmt = "%Y-%m-%d" ->
                IF t.kind = "dash" /\ ValidYmd(t.a, t.b, t.c)
                THEN Ok(Ymd2Ord(t.a, t.b, t.c)) ELSE Raise("ValueError")
           [] fmt = "%d/%m/%Y" ->
                IF t.kind = "slash" /\ ValidYmd(t.c, t.b, t.a)
                THEN Ok(Ymd2Ord(t.c, t.b, t.a)) ELSE Raise("ValueError")
           [] fmt = "%m/%d/%Y" ->
                IF t.kind = "slash" /\ ValidYmd(t.c, t.a, t.b)
                THEN Ok(Ymd2Ord(t.c, t.a, t.b)) ELSE Raise("ValueError")
           [] fmt = "%d-%m-%Y" ->
                IF t.kind = "dash" /\ ValidYmd(t.c, t.b, t.a)
                THEN Ok(Ymd2Ord(t.c, t.b, t.a)) ELSE Raise("ValueError")
           [] OTHER -> Raise("ValueError")

----------------------------------------------------------------------------
(* The target-date classifier.  A result is [exc, val]: exc is "none" and  *)
(* val the returned value, or exc is the exception that escapes.           *)

Ret(v) == [exc |-> "none", val |-> v]

Escapes(e) == [exc |-> e, val |-> None]

\* mutant: only ValueError is caught
calculate_days_catching_value_error(target_date_str, now) ==
    IF ~Truthy(target_date_str) THEN Ret(None)
    ELSE LET p == Strptime(target_date_str, "%Y-%m-%d") IN
         IF p.exc = "none" THEN Ret(Some(p.ord - now))
         ELSE IF p.exc = "ValueError" THEN Ret(None)
         ELSE Escapes(p.exc)

\* app.py calculate_days_until_target: Some(days) or None
calculate_days_until_target(target_date_str, now) ==
    IF ~Truthy(target_date_str) THEN Ret(None)
    ELSE LET p == Strptime(target_date_str, "%Y-%m-%d") IN
         IF p.exc = "none" THEN Ret(Some(p.ord - now))
         ELSE IF p.exc \in {"ValueError", "TypeError"} THEN Ret(None)
         ELSE Escapes(p.exc)

\* mutant: due_soon ends a day early
ClassifyOffByOne(days) ==
    IF days = None THEN "no_target"
    ELSE IF days[1] < 0 THEN "overdue"
    ELSE IF days[1] = 0 THEN "due_today"
    ELSE IF days[1] < 2 THEN "due_soon"
    ELSE "on_track"

\* the if / elif chain of get_target_status on a computed day count
Classify(days) ==
    IF days = None THEN "no_target"
    ELSE IF days[1] < 0 THEN "overdue"
    ELSE IF days[1] = 0 THEN "due_today"
    ELSE IF days[1] <= 2 THEN "due_soon"
    ELSE "on_track"

\* mutant: the date is looked at before the status
get_target_status_date_first(target_date_str, status, now) ==
    LET d == calculate_days_until_target(target_date_str, now) IN
    IF d.exc # "none" THEN Escapes(d.exc)
    ELSE IF d.val = None THEN Ret(Some("no_target"))
    ELSE IF status = "completed" THEN Ret(Some("completed"))
    ELSE Ret(Some(Classify(d.val)))

\* app.py get_target_status
get_target_status(target_date_str, status, now) ==
    IF status = "completed" THEN Ret(Some("completed"))
    ELSE LET d == calculate_days_until_target(target_date_str, now) IN
         IF d.exc # "none" THEN Escapes(d.exc)
         ELSE Ret(Some(Classify(d.val)))

\* todo.py calculate_days_until_target: the CLI's own copy
cli_calculate_days_until_target(target_date_str, now) ==
    IF ~Truthy(target_date_str) THEN Ret(None)
    ELSE LET p == Strptime(target_date_str, "%Y-%m-%d") IN
         IF p.exc = "none" THEN Ret(Some(p.ord - now))
         ELSE IF p.exc \in {"ValueError", "TypeError"} THEN Ret(None)
         ELSE Escapes(p.exc)

\* the if / elif chain of todo.py get_target_status
CliClassify(days) ==
    IF days = None THEN "no_target"
    ELSE IF days[1] < 0 THEN "overdue"
    ELSE IF days[1] = 0 THEN "due_today"
    ELSE IF days[1] <= 2 THEN "due_soon"
    ELSE "on_track"

\* todo.py get_target_status
cli_get_target_status(target_date_str, status, now) ==
    IF status = "completed" THEN Ret(Some("completed"))
    ELSE LET d == cli_calculate_days_until_target(target_date_str, now) IN
         IF d.exc # "none" THEN Escapes(d.exc)
         ELSE Ret(Some(CliClassify(d.val)))

----------------------------------------------------------------------------
(* Direct calls of the classifier, on dates around the end of February of  *)
(* a leap year.                                                            *)

\* the day the runs start on: 2024-02-27
Today0 == Ymd2Ord(2024, 2, 27)

VALID_STATUSES == <<"pending", "in_progress", "on_hold", "completed">>

ValidStatusSet == {VALID_STATUSES[i] : i \in DOMAIN VALID_STATUSES}

\* the efforts the API names as valid; no handler reads the list
VALID_EFFORTS == <<"0.5", "1", "2", "4", "8", "16", "24", "40">>

ProbeStatuses == ValidStatusSet \cup {"bogus"}

ProbeDates ==
    {Dash(2024, 2, d, TRUE) : d \in 24..29}
    \cup {Dash(2024, 3, d, TRUE) : d \in 1..7}
    \cup {Dash(2024, 3, 2, FALSE), Dash(2025, 2, 28, TRUE), Dash(2023, 12, 31, TRUE)}
    \cup {Dash(2024, 2, 30, TRUE), Dash(2023, 2, 29, TRUE), Dash(2024, 13, 1, TRUE),
          Dash(2024, 0, 10, TRUE), Dash(27, 2, 2024, TRUE), Slash(27, 2, 2024, TRUE),
          Slash(2024, 2, 27, TRUE), Text("today", 0, 0, 0, FALSE), Rel(3), Word(1),
          EmptyStr, NoneText, Number(0), Number(5)}

NoProbe ==
    [called |-> FALSE, date |-> EmptyStr, status |-> "pending", now |-> Today0,
     apiDays |-> Ret(None), apiTarget |-> Ret(None),
     cliDays |-> Ret(None), cliTarget |-> Ret(None)]

\* one call of each front-end's two functions on the same inputs
ProbeClassifier(d, s) ==
    /\ frontend = "classifier"
    /\ probe' = [called |-> TRUE, date |-> d, status |-> s, now |-> today,
                 apiDays |-> calculate_days_until_target(d, today),
                 apiTarget |-> get_target_status(d, s, today),
                 cliDays |-> cli_calculate_days_until_target(d, today),
                 cliTarget |-> cli_get_target_status(d, s, today)]
    /\ UNCHANGED <<apiFile, cliFile, resp, today, frontend, inflight, served, issued>>

\* midnight passes: date.today() moves on
Tick ==
    /\ frontend = "classifier"
    /\ today < Today0 + MaxTicks
    /\ today' = today + 1
    /\ UNCHANGED <<apiFile, cliFile, resp, probe, frontend, inflight, served, issued>>

----------------------------------------------------------------------------
(* The API (src/app.py).  A handler is an operator from the loaded list,   *)
(* the request and the clock to [file, resp]: the list the file holds      *)
(* afterwards and the response.                                            *)

\* what an operation reports: the handler, the outcome, the count it names and,
\* for the CLI listing, the ids of the lines printed, in order
Resp(op, kind, count) == [op |-> op, kind |-> kind, count |-> count, shown |-> <<>>]

NoResp == Resp("none", "none", 0)

Result(file, r) == [file |-> file, resp |-> r]

\* dict.get(key, default) on an optional request field
Get(opt, default) == IF opt = None THEN default ELSE opt[1]

\* max of a non-empty set of integers
Max(S) == CHOOSE x \in S : \A y \in S : y <= x

\* index of the first record whose id is todo_id, 0 when the loop finds none
Find(todos, todo_id) ==
    IF \E i \in 1..Len(todos) : todos[i].id = todo_id
    THEN CHOOSE i \in 1..Len(todos) :
             /\ todos[i].id = todo_id
             /\ \A j \in 1..(i - 1) : todos[j].id # todo_id
    ELSE 0

\* a removal that numbers the records left 1..N, as the CLI's delete does
PopRenumbering(todos, i) ==
    LET rest == SubSeq(todos, 1, i - 1) \o SubSeq(todos, i + 1, Len(todos))
    IN  [k \in 1..Len(rest) |-> [rest[k] EXCEPT !.id = k]]

\* todos.pop(i)
Pop(todos, i) == SubSeq(todos, 1, i - 1) \o SubSeq(todos, i + 1, Len(todos))

\* [t for t in todos if keep(t)], keep given as the set of kept indices
RECURSIVE Filter(_, _, _)
Filter(todos, keep, i) ==
    IF i > Len(todos) THEN <<>>
    ELSE IF i \in keep THEN <<todos[i]>> \o Filter(todos, keep, i + 1)
    ELSE Filter(todos, keep, i + 1)

\* mutant: the next id taken from the length, as the CLI does, without the
\* CLI's renumbering
get_next_id_by_length(todos) == Len(todos) + 1

\* an id strategy that fills the lowest gap
get_next_id_lowest_free(todos) ==
    LET ids == {todos[i].id : i \in 1..Len(todos)}
    IN  CHOOSE n \in 1..(Len(todos) + 1) :
            n \notin ids /\ \A m \in 1..(n - 1) : m \in ids

get_next_id(todos) ==
    IF Len(todos) = 0 THEN 1
    ELSE Max({todos[i].id : i \in 1..Len(todos)}) + 1

\* a POST body: task, priority, effort and target_date, each present or not
AddData(task, priority, effort, target_date) ==
    [task |-> task, priority |-> priority, effort |-> effort, target_date |-> target_date]

\* `not data or not data.get("task")`
TaskMissing(data) == data.task = None \/ data.task[1] = ""

\* mutant: the priority of the request is ignored
NewApiTodoDefaultPriority(todos, data, now, days, tstatus) ==
    [id |-> get_next_id(todos),
     task |-> data.task[1],
     priority |-> "medium",
     status |-> "pending",
     effort |-> Get(data.effort, ""),
     target_date |-> Get(data.target_date, EmptyStr),
     created_at |-> now,
     completed_at |-> None,
     days_until_target |-> days,
     target_status |-> tstatus]

\* the dictionary add_todo builds, computed fields included
NewApiTodo(todos, data, now, days, tstatus) ==
    [id |-> get_next_id(todos),
     task |-> data.task[1],
     priority |-> Get(data.priority, "medium"),
     status |-> "pending",
     effort |-> Get(data.effort, ""),
     target_date |-> Get(data.target_date, EmptyStr),
     created_at |-> now,
     completed_at |-> None,
     days_until_target |-> days,
     target_status |-> tstatus]

api_add_todo(todos, data, now) ==
    IF TaskMissing(data) THEN Result(todos, Resp("api_add", "task_required", 0))
    ELSE LET target_date == Get(data.target_date, EmptyStr)
             days == calculate_days_until_target(target_date, now)
             tstatus == get_target_status(target_date, "pending", now)
         IN  IF days.exc # "none" \/ tstatus.exc # "none"
             THEN Result(todos, Resp("api_add", "exception", 0))
             ELSE Result(Append(todos, NewApiTodo(todos, data, now, days.val, tstatus.val)),
                         Resp("api_add", "created", 0))

\* a PUT body: status, task, priority, effort and target_date, each present or not
UpdateData(status, task, priority, effort, target_date) ==
    [status |-> status, task |-> task, priority |-> priority, effort |-> effort,
     target_date |-> target_date]

\* mutant: the status is stored without being checked
StatusNeverRejected(data) == FALSE

\* `"status" in data` and `data["status"] not in VALID_STATUSES`
StatusRejected(data) == data.status # None /\ data.status[1] \notin ValidStatusSet

\* mutant: a status other than completed leaves the old completed_at in place
ApplyStatusKeepsStamp(todo, data, now) ==
    IF data.status = None THEN todo
    ELSE [todo EXCEPT !.status = data.status[1],
                      !.completed_at = IF data.status[1] = "completed"
                                       THEN Some(now) ELSE @]

\* the status branch of update_todo: status and completed_at
ApplyStatus(todo, data, now) ==
    IF data.status = None THEN todo
    ELSE [todo EXCEPT !.status = data.status[1],
                      !.completed_at = IF data.status[1] = "completed"
                                       THEN Some(now) ELSE None]

\* the four plain field assignments of update_todo
ApplyFields(todo, data) ==
    [todo EXCEPT !.task = Get(data.task, @),
                 !.priority = Get(data.priority, @),
                 !.effort = Get(data.effort, @),
                 !.target_date = Get(data.target_date, @)]

api_update_todo(todos, todo_id, data, now) ==
    LET i == Find(todos, todo_id) IN
    IF i = 0 THEN Result(todos, Resp("api_update", "not_found", 0))
    ELSE IF StatusRejected(data)
    THEN Result(todos, Resp("api_update", "invalid_status", 0))
    ELSE LET t == ApplyFields(ApplyStatus(todos[i], data, now), data)
             days == calculate_days_until_target(t.target_date, now)
             tstatus == get_target_status(t.target_date, t.status, now)
         IN  IF days.exc # "none" \/ tstatus.exc # "none"
             THEN Result(todos, Resp("api_update", "exception", 0))
             ELSE Result([todos EXCEPT ![i] = [t EXCEPT !.days_until_target = days.val,
                                                        !.target_status = tstatus.val]],
                         Resp("api_update", "ok", 0))

\* mutant: the matching records are filtered out and the delete is confirmed
\* without a look at whether any matched
api_delete_unchecked(todos, todo_id) ==
    Result(Filter(todos, {i \in 1..Len(todos) : todos[i].id # todo_id}, 1),
           Resp("api_delete", "deleted", 0))

api_delete_todo(todos, todo_id) ==
    LET i == Find(todos, todo_id) IN
    IF i = 0 THEN Result(todos, Resp("api_delete", "not_found", 0))
    ELSE Result(Pop(todos, i), Resp("api_delete", "deleted", 0))

\* mutant: only the pending records are kept
api_clear_keeping_pending(todos) ==
    LET active_todos == Filter(todos, {i \in 1..Len(todos) : todos[i].status = "pending"}, 1)
    IN  Result(active_todos, Resp("api_clear", "cleared", Len(todos) - Len(active_todos)))

api_clear_completed(todos) ==
    LET active_todos == Filter(todos, {i \in 1..Len(todos) : todos[i].status # "completed"}, 1)
    IN  Result(active_todos, Resp("api_clear", "cleared", Len(todos) - Len(active_todos)))

\* get_todos: the computed fields of every record; an exception escapes as is
api_get_todos(todos, now) ==
    IF \E i \in 1..Len(todos) :
           \/ calculate_days_until_target(todos[i].target_date, now).exc # "none"
           \/ get_target_status(todos[i].target_date, todos[i].status, now).exc # "none"
    THEN Result(todos, Resp("api_list", "exception", 0))
    ELSE Result(todos, Resp("api_list", "ok", 0))

(* float(effort), in half hours so that 0.5 stays an integer: Ret(h), or   *)
(* the ValueError of a text that is no number.                             *)
Float(effort) ==
    CASE effort = "0.5" -> Ret(1)
      [] effort = "1" -> Ret(2)
      [] effort = "2" -> Ret(4)
      [] effort = "4" -> Ret(8)
      [] effort = "8" -> Ret(16)
      [] effort = "16" -> Ret(32)
      [] effort = "24" -> Ret(48)
      [] effort = "40" -> Ret(80)
      [] effort = "3" -> Ret(6)
      [] effort = "-1" -> Ret(-2)
      [] OTHER -> [exc |-> "ValueError", val |-> 0]

\* what one record adds to total_effort in get_summary's loop
EffortHours(todo) ==
    IF todo.effort = "" THEN 0
    ELSE LET f == Float(todo.effort) IN IF f.exc = "none" THEN f.val ELSE 0

\* what one record adds to completed_effort in get_summary's loop
CompletedEffortHours(todo) ==
    IF todo.effort = "" THEN 0
    ELSE LET f == Float(todo.effort) IN
         IF f.exc = "none" /\ todo.status = "completed" THEN f.val ELSE 0

\* total_effort after the loop has run from record i on
RECURSIVE TotalEffort(_, _)
TotalEffort(todos, i) ==
    IF i > Len(todos) THEN 0 ELSE EffortHours(todos[i]) + TotalEffort(todos, i + 1)

\* completed_effort after the loop has run from record i on
RECURSIVE CompletedEffort(_, _)
CompletedEffort(todos, i) ==
    IF i > Len(todos) THEN 0
    ELSE CompletedEffortHours(todos[i]) + CompletedEffort(todos, i + 1)

\* get_summary's response body; efforts in half hours
api_get_summary(todos, now) ==
    LET ts(i) == get_target_status(todos[i].target_date, todos[i].status, now)
        total_effort == TotalEffort(todos, 1)
        completed_effort == CompletedEffort(todos, 1)
    IN  IF \E i \in 1..Len(todos) : ts(i).exc # "none"
        THEN [exc |-> "raised", total_tasks |-> 0, completed_tasks |-> 0,
              total_effort_hours |-> 0, completed_effort_hours |-> 0,
              remaining_effort_hours |-> 0, overdue_count |-> 0, due_soon_count |-> 0]
        ELSE [exc |-> "none",
              total_tasks |-> Len(todos),
              completed_tasks |->
                  Cardinality({i \in 1..Len(todos) : todos[i].status = "completed"}),
              total_effort_hours |-> total_effort,
              completed_effort_hours |-> completed_effort,
              remaining_effort_hours |-> total_effort - completed_effort,
              overdue_count |->
                  Cardinality({i \in 1..Len(todos) : ts(i).val = Some("overdue")}),
              due_soon_count |->
                  Cardinality({i \in 1..Len(todos) :
                                   ts(i).val \in {Some("due_today"), Some("due_soon")}})]

----------------------------------------------------------------------------
(* The requests the API is driven with.                                    *)

\* highest id an add may assign while the model is explored
MaxId == MaxTodos

Yesterday == Strftime(Today0 - 1)

ApiAddRequests ==
    {AddData(Some("a"), None, None, None),
     AddData(Some("b"), Some("urgent"), Some("-1"), Some(Number(5))),
     AddData(Some(""), Some("high"), Some("2"), Some(Yesterday)),
     AddData(None, Some("high"), Some("2"), Some(Yesterday))}

ApiUpdateRequests ==
    {UpdateData(Some("completed"), None, None, None, None),
     UpdateData(Some("in_progress"), None, None, None, None),
     UpdateData(None, Some("c"), Some("low"), Some("2"), Some(Yesterday)),
     UpdateData(None, None, None, None, None),
     UpdateData(Some("bogus"), None, None, None, None),
     UpdateData(Some("bogus"), Some("c"), Some("high"), Some("4"), Some(Word(1)))}

\* the ids the API can have assigned
ApiIds == 1..MaxId

\* those, and one more that is never an id
ApiDeleteIds == 1..(MaxId + 1)

ApiAdd(data) ==
    /\ frontend = "api"
    /\ Len(apiFile) < MaxTodos
    /\ get_next_id(apiFile) <= MaxId
    /\ LET r == api_add_todo(apiFile, data, today) IN
           apiFile' = r.file /\ resp' = r.resp
    /\ UNCHANGED <<cliFile, today, probe, frontend, inflight, served, issued>>

ApiUpdate(todo_id, data) ==
    /\ frontend = "api"
    /\ LET r == api_update_todo(apiFile, todo_id, data, today) IN
           apiFile' = r.file /\ resp' = r.resp
    /\ UNCHANGED <<cliFile, today, probe, frontend, inflight, served, issued>>

ApiDelete(todo_id) ==
    /\ frontend = "api"
    /\ LET r == api_delete_todo(apiFile, todo_id) IN
           apiFile' = r.file /\ resp' = r.resp
    /\ UNCHANGED <<cliFile, today, probe, frontend, inflight, served, issued>>

ApiClearCompleted ==
    /\ frontend = "api"
    /\ LET r == api_clear_completed(apiFile) IN
           apiFile' = r.file /\ resp' = r.resp
    /\ UNCHANGED <<cliFile, today, probe, frontend, inflight, served, issued>>

ApiGetTodos ==
    /\ frontend = "api"
    /\ LET r == api_get_todos(apiFile, today) IN
           apiFile' = r.file /\ resp' = r.resp
    /\ UNCHANGED <<cliFile, today, probe, frontend, inflight, served, issued>>

ApiGetSummary ==
    /\ frontend = "api"
    /\ resp' = Resp("api_summary",
                    IF api_get_summary(apiFile, today).exc = "none" THEN "ok" ELSE "exception",
                    0)
    /\ UNCHANGED <<apiFile, cliFile, today, probe, frontend, inflight, served, issued>>

ApiNext ==
    \/ \E data \in ApiAddRequests : ApiAdd(data)
    \/ \E todo_id \in ApiIds, data \in ApiUpdateRequests : ApiUpdate(todo_id, data)
    \/ \E todo_id \in ApiDeleteIds : ApiDelete(todo_id)
    \/ ApiClearCompleted
    \/ ApiGetTodos
    \/ ApiGetSummary

----------------------------------------------------------------------------
(* The CLI (src/todo.py).                                                  *)

EFFORT_OPTIONS ==
    ("30m" :> "0.5") @@ ("1h" :> "1") @@ ("2h" :> "2") @@ ("4h" :> "4") @@
    ("1d" :> "8") @@ ("2d" :> "16") @@ ("3d" :> "24") @@ ("1w" :> "40")

\* the two places that map an effort label: a label of the table becomes its
\* hours, anything else stays as typed
MapEffort(effort) ==
    IF effort \in DOMAIN EFFORT_OPTIONS THEN EFFORT_OPTIONS[effort] ELSE effort

\* the four formats of parse_date, tried in this order: the first that parses
ParseFormats(date_str) ==
    LET formats == <<"%Y-%m-%d", "%d/%m/%Y", "%m/%d/%Y", "%d-%m-%Y">>
        hits == {k \in 1..Len(formats) : Strptime(date_str, formats[k]).exc = "none"}
    IN  IF hits = {} THEN Ret(NoneText)
        ELSE LET k == CHOOSE k \in hits : \A j \in hits : k <= j
             IN  Ret(Strftime(Strptime(date_str, formats[k]).ord))

\* parse_date: Ret(normalised text), Ret(NoneText) when nothing matches
parse_date(date_str, now) ==
    IF ~Truthy(date_str) THEN Ret(NoneText)
    ELSE IF ~IsStr(date_str) THEN Escapes("AttributeError")
    ELSE IF date_str.kind = "today" THEN Ret(Strftime(now))
    ELSE IF date_str.kind = "tomorrow" THEN Ret(Strftime(now + 1))
    ELSE IF date_str.kind = "rel" THEN Ret(Strftime(now + date_str.a))
    ELSE ParseFormats(date_str)

NewCliTodo(todos, task, priority, effort, parsed_date, now) ==
    [id |-> Len(todos) + 1,
     task |-> task,
     priority |-> priority,
     status |-> "pending",
     effort |-> effort,
     target_date |-> parsed_date,
     completed |-> FALSE,
     created_at |-> now,
     completed_at |-> None]

cli_add_todo(todos, task, priority, effort, target_date, now) ==
    LET parsed == IF Truthy(target_date) THEN parse_date(target_date, now) ELSE Ret(EmptyStr)
    IN  IF parsed.exc # "none" THEN Result(todos, Resp("cli_add", "exception", 0))
        ELSE Result(Append(todos, NewCliTodo(todos, task, priority, MapEffort(effort),
                                             parsed.val, now)),
                    Resp("cli_add", "added", 0))

\* `todo.get("status") == "completed" or todo.get("completed")`
IsDone(todo) == todo.status = "completed" \/ todo.completed

cli_complete_todo(todos, todo_id, now) ==
    LET i == Find(todos, todo_id) IN
    IF i = 0 THEN Result(todos, Resp("cli_done", "not_found", 0))
    ELSE IF IsDone(todos[i]) THEN Result(todos, Resp("cli_done", "already_completed", 0))
    ELSE Result([todos EXCEPT ![i] = [@ EXCEPT !.status = "completed",
                                               !.completed = TRUE,
                                               !.completed_at = Some(now)]],
                Resp("cli_done", "completed", 0))

cli_set_effort(todos, todo_id, effort) ==
    LET i == Find(todos, todo_id) IN
    IF i = 0 THEN Result(todos, Resp("cli_effort", "not_found", 0))
    ELSE Result([todos EXCEPT ![i].effort = MapEffort(effort)],
                Resp("cli_effort", "effort_set", 0))

cli_set_target_date(todos, todo_id, target_date, now) ==
    LET parsed == parse_date(target_date, now)
        i == Find(todos, todo_id)
    IN  IF parsed.exc # "none" THEN Result(todos, Resp("cli_due", "exception", 0))
        ELSE IF ~Truthy(parsed.val) THEN Result(todos, Resp("cli_due", "invalid_date", 0))
        ELSE IF i = 0 THEN Result(todos, Resp("cli_due", "not_found", 0))
        ELSE Result([todos EXCEPT ![i].target_date = parsed.val],
                    Resp("cli_due", "date_set", 0))

\* `for j, t in enumerate(todos): t["id"] = j + 1`, from position j on
RECURSIVE Renumber(_, _)
Renumber(todos, j) ==
    IF j > Len(todos) THEN <<>>
    ELSE <<[todos[j] EXCEPT !.id = j]>> \o Renumber(todos, j + 1)

cli_delete_todo(todos, todo_id) ==
    LET i == Find(todos, todo_id) IN
    IF i = 0 THEN Result(todos, Resp("cli_delete", "not_found", 0))
    ELSE Result(Renumber(Pop(todos, i), 1), Resp("cli_delete", "deleted", 0))

\* a clear that saves the records it keeps under the ids they had
cli_clear_without_renumbering(todos) ==
    LET active_todos == Filter(todos, {i \in 1..Len(todos) : ~IsDone(todos[i])}, 1)
        removed_count == Len(todos) - Len(active_todos)
    IN  IF removed_count = 0 THEN Result(todos, Resp("cli_clear", "nothing_to_clear", 0))
        ELSE Result(active_todos, Resp("cli_clear", "cleared", removed_count))

cli_clear_completed(todos) ==
    LET active_todos == Filter(todos, {i \in 1..Len(todos) : ~IsDone(todos[i])}, 1)
        removed_count == Len(todos) - Len(active_todos)
    IN  IF removed_count = 0 THEN Result(todos, Resp("cli_clear", "nothing_to_clear", 0))
        ELSE Result(Renumber(active_todos, 1), Resp("cli_clear", "cleared", removed_count))

\* target_order.get(..., 4)
TargetRank(target_status) ==
    CASE target_status = "overdue" -> 0
      [] target_status = "due_today" -> 1
      [] target_status = "due_soon" -> 2
      [] target_status = "on_track" -> 3
      [] target_status = "no_target" -> 4
      [] target_status = "completed" -> 5
      [] OTHER -> 4

\* priority_order.get(..., 1)
PriorityRank(priority) ==
    CASE priority = "high" -> 0
      [] priority = "medium" -> 1
      [] priority = "low" -> 2
      [] OTHER -> 1

\* the sort key of list_todos
SortKey(t, now) ==
    <<TargetRank(cli_get_target_status(t.target_date, t.status, now).val[1]),
      PriorityRank(t.priority)>>

\* a comparison that lets a later record overtake an earlier one of equal key
KeyLeqStrict(k1, k2) == k1[1] < k2[1] \/ (k1[1] = k2[1] /\ k1[2] < k2[2])

\* tuple comparison k1 <= k2 of two sort keys
KeyLeq(k1, k2) == k1[1] < k2[1] \/ (k1[1] = k2[1] /\ k1[2] <= k2[2])

\* list.sort is stable: x goes behind every element whose key is not greater
RECURSIVE InsertSorted(_, _, _)
InsertSorted(sorted, x, now) ==
    IF sorted = <<>> THEN <<x>>
    ELSE IF KeyLeq(SortKey(Head(sorted), now), SortKey(x, now))
    THEN <<Head(sorted)>> \o InsertSorted(Tail(sorted), x, now)
    ELSE <<x>> \o sorted

RECURSIVE SortTodos(_, _, _)
SortTodos(todos, n, now) ==
    IF n = 0 THEN <<>>
    ELSE InsertSorted(SortTodos(todos, n - 1, now), todos[n], now)

\* the records list_todos displays, before sorting
DisplayTodos(todos, show_all, filter_by, now) ==
    LET ts(i) == cli_get_target_status(todos[i].target_date, todos[i].status, now).val
        keep == IF filter_by = "overdue"
                THEN {i \in 1..Len(todos) : ts(i) = Some("overdue")}
                ELSE IF filter_by = "due_soon"
                THEN {i \in 1..Len(todos) : ts(i) \in {Some("due_today"), Some("due_soon")}}
                ELSE IF ~show_all
                THEN {i \in 1..Len(todos) : ~IsDone(todos[i])}
                ELSE 1..Len(todos)
    IN  Filter(todos, keep, 1)

\* whether a call of the classifier made by list_todos lets an exception out
ListRaises(todos, now) ==
    \E i \in 1..Len(todos) :
        \/ cli_get_target_status(todos[i].target_date, todos[i].status, now).exc # "none"
        \/ /\ Truthy(todos[i].target_date)
           /\ cli_calculate_days_until_target(todos[i].target_date, now).exc # "none"

cli_list_todos(todos, show_all, filter_by, now) ==
    IF Len(todos) = 0 THEN Result(todos, Resp("cli_list", "no_todos", 0))
    ELSE IF ListRaises(todos, now) THEN Result(todos, Resp("cli_list", "exception", 0))
    ELSE LET display_todos == DisplayTodos(todos, show_all, filter_by, now)
             sorted == SortTodos(display_todos, Len(display_todos), now)
         IN  IF Len(display_todos) = 0
             THEN Result(todos, Resp("cli_list", "nothing_to_show", 0))
             ELSE Result(todos, [op |-> "cli_list", kind |-> "listed",
                                 count |-> Len(sorted),
                                 shown |-> [k \in 1..Len(sorted) |-> sorted[k].id]])

----------------------------------------------------------------------------
(* The commands the CLI is driven with.                                    *)

CliAddArgs ==
    {<<"a", "medium", "1h", EmptyStr>>,
     <<"b", "high", "9x", Slash(31, 4, 2024, TRUE)>>}

CliEffortArgs == {"9x"}

CliDateArgs == {Rel(1), Word(1)}

\* the ids a CLI collection can hold
CliIds == 1..MaxTodos

\* those, and one more that is never an id
CliDeleteIds == 1..(MaxTodos + 1)

CliListArgs == {<<FALSE, "none">>, <<TRUE, "none">>, <<FALSE, "due_soon">>}

CliAdd(args) ==
    /\ frontend = "cli"
    /\ Len(cliFile) < MaxTodos
    /\ LET r == cli_add_todo(cliFile, args[1], args[2], args[3], args[4], today) IN
           cliFile' = r.file /\ resp' = r.resp
    /\ UNCHANGED <<apiFile, today, probe, frontend, inflight, served, issued>>

CliDone(todo_id) ==
    /\ frontend = "cli"
    /\ LET r == cli_complete_todo(cliFile, todo_id, today) IN
           cliFile' = r.file /\ resp' = r.resp
    /\ UNCHANGED <<apiFile, today, probe, frontend, inflight, served, issued>>

CliEffort(todo_id, effort) ==
    /\ frontend = "cli"
    /\ LET r == cli_set_effort(cliFile, todo_id, effort) IN
           cliFile' = r.file /\ resp' = r.resp
    /\ UNCHANGED <<apiFile, today, probe, frontend, inflight, served, issued>>

CliDue(todo_id, target_date) ==
    /\ frontend = "cli"
    /\ LET r == cli_set_target_date(cliFile, todo_id, target_date, today) IN
           cliFile' = r.file /\ resp' = r.resp
    /\ UNCHANGED <<apiFile, today, probe, frontend, inflight, served, issued>>

CliDelete(todo_id) ==
    /\ frontend = "cli"
    /\ LET r == cli_delete_todo(cliFile, todo_id) IN
           cliFile' = r.file /\ resp' = r.resp
    /\ UNCHANGED <<apiFile, today, probe, frontend, inflight, served, issued>>

CliClear ==
    /\ frontend = "cli"
    /\ LET r == cli_clear_completed(cliFile) IN
           cliFile' = r.file /\ resp' = r.resp
    /\ UNCHANGED <<apiFile, today, probe, frontend, inflight, served, issued>>

CliList(args) ==
    /\ frontend = "cli"
    /\ LET r == cli_list_todos(cliFile, args[1], args[2], today) IN
           cliFile' = r.file /\ resp' = r.resp
    /\ UNCHANGED <<apiFile, today, probe, frontend, inflight, served, issued>>

CliNext ==
    \/ \E args \in CliAddArgs : CliAdd(args)
    \/ \E todo_id \in CliIds : CliDone(todo_id)
    \/ \E todo_id \in CliIds, effort \in CliEffortArgs : CliEffort(todo_id, effort)
    \/ \E todo_id \in CliIds, target_date \in CliDateArgs : CliDue(todo_id, target_date)
    \/ \E todo_id \in CliDeleteIds : CliDelete(todo_id)
    \/ CliClear

\* the workers of the server
Workers == {"w1", "w2"}

\* a request as the server receives it: the route, the id of the path and the body
Request(op, todo_id, add, upd) ==
    [op |-> op, todo_id |-> todo_id, add |-> add, upd |-> upd]

NoAdd == AddData(None, None, None, None)

NoUpdate == UpdateData(None, None, None, None, None)

\* a worker between requests; resp is the answer to the request it handled last
Idle ==
    [pc |-> "idle", req |-> Request("none", 0, NoAdd, NoUpdate), todos |-> <<>>,
     stale |-> FALSE, resp |-> NoResp]

\* the ids the concurrent requests name
RaceIds == 1..2

ClassifierNext ==
    \/ \E d \in ProbeDates, s \in ProbeStatuses : ProbeClassifier(d, s)
    \/ Tick

Init ==
    /\ frontend \in {"api", "cli", "classifier"}
    /\ apiFile = <<>>
    /\ cliFile = <<>>
    /\ resp = NoResp
    /\ today = Today0
    /\ probe = NoProbe
    /\ inflight = [p \in Workers |-> Idle]
    /\ served = 0
    /\ issued = <<>>

Next == ApiNext \/ CliNext \/ ClassifierNext

Spec == Init /\ [][Next]_vars

----------------------------------------------------------------------------
(* The API served by two workers.  A handler is two steps: it loads the    *)
(* file when it starts and, if it gets as far as save_todos, overwrites    *)
(* the file with its own list when it ends.  Steps of different workers    *)
(* interleave freely.                                                      *)

\* a save that keeps what is in the file and appends the records it has not got
save_todos_appending(file, todos) ==
    file \o Filter(todos, {i \in 1..Len(todos) :
                           \A j \in 1..Len(file) : file[j] # todos[i]}, 1)

\* json.dump(todos, f) on a file opened with "w": what was in the file is gone
save_todos(file, todos) == todos

\* the dispatch of a request to its handler
Handle(req, todos, now) ==
    CASE req.op = "add" -> api_add_todo(todos, req.add, now)
      [] req.op = "update" -> api_update_todo(todos, req.todo_id, req.upd, now)
      [] req.op = "delete" -> api_delete_todo(todos, req.todo_id)
      [] req.op = "clear" -> api_clear_completed(todos)

\* the answers of the handlers that called save_todos on the way
Saves(r) ==
    \/ r.op = "api_add" /\ r.kind = "created"
    \/ r.op = "api_update" /\ r.kind = "ok"
    \/ r.op = "api_delete" /\ r.kind = "deleted"
    \/ r.op = "api_clear" /\ r.kind = "cleared"

\* a handler that reads the file at the moment it saves, as under a lock
TodosAtSave(p) == apiFile

\* the handler's `todos`: the list it loaded when it started
HandlerTodos(p) == inflight[p].todos

RaceAddRequests ==
    {Request("add", 0, AddData(Some(t), None, None, None), NoUpdate) : t \in {"a", "b"}}

RaceUpdateRequests ==
    {Request("update", i, NoAdd, UpdateData(Some("completed"), None, None, None, None)) :
         i \in RaceIds}

RaceDeleteRequests == {Request("delete", i, NoAdd, NoUpdate) : i \in RaceIds}

RaceClearRequests == {Request("clear", 0, NoAdd, NoUpdate)}

RaceRequests ==
    RaceAddRequests \cup RaceUpdateRequests \cup RaceDeleteRequests
    \cup RaceClearRequests

\* a worker takes up a request and its handler loads the file
RaceLoad(p, req) ==
    /\ frontend = "api_race"
    /\ inflight[p].pc = "idle"
    /\ served < MaxRequests
    /\ inflight' = [inflight EXCEPT ![p] = [pc |-> "loaded", req |-> req,
                                            todos |-> apiFile, stale |-> FALSE,
                                            resp |-> NoResp]]
    /\ served' = served + 1
    /\ UNCHANGED <<apiFile, cliFile, resp, today, probe, frontend, issued>>

\* the handler runs on the list it loaded, saves where its code saves, answers
RaceSave(p) ==
    /\ frontend = "api_race"
    /\ inflight[p].pc = "loaded"
    /\ LET r == Handle(inflight[p].req, HandlerTodos(p), today)
           saved == Saves(r.resp)
       IN  /\ apiFile' = IF saved THEN save_todos(apiFile, r.file) ELSE apiFile
           /\ resp' = r.resp
           /\ inflight' = [q \in Workers |->
                  IF q = p
                  THEN [pc |-> "idle", req |-> inflight[p].req, todos |-> <<>>,
                        stale |-> inflight[p].stale, resp |-> r.resp]
                  ELSE IF saved /\ inflight[q].pc = "loaded"
                  THEN [inflight[q] EXCEPT !.stale = TRUE]
                  ELSE inflight[q]]
    /\ UNCHANGED <<cliFile, today, probe, frontend, served, issued>>

RaceNext ==
    \/ \E p \in Workers, req \in RaceRequests : RaceLoad(p, req)
    \/ \E p \in Workers : RaceSave(p)

RaceInit ==
    /\ frontend = "api_race"
    /\ apiFile = <<>>
    /\ cliFile = <<>>
    /\ resp = NoResp
    /\ today = Today0
    /\ probe = NoProbe
    /\ inflight = [p \in Workers |-> Idle]
    /\ served = 0
    /\ issued = <<>>

RaceSpec == RaceInit /\ [][RaceNext]_vars

----------------------------------------------------------------------------
(* The CLI with its listing: the commands above and `list`, which prints   *)
(* and writes nothing.                                                     *)

ListNext ==
    \/ CliNext
    \/ \E args \in CliListArgs : CliList(args)

ListInit ==
    /\ frontend = "cli"
    /\ apiFile = <<>>
    /\ cliFile = <<>>
    /\ resp = NoResp
    /\ today = Today0
    /\ probe = NoProbe
    /\ inflight = [p \in Workers |-> Idle]
    /\ served = 0
    /\ issued = <<>>

ListSpec == ListInit /\ [][ListNext]_vars

----------------------------------------------------------------------------
(* The API driven one request at a time, with a log of the ids it gave to  *)
(* new records.                                                            *)

IdsAddRequests ==
    {AddData(Some("a"), None, None, None),
     AddData(Some("b"), Some("high"), Some("2"), Some(Yesterday))}

IdsUpdateRequests == {UpdateData(Some("completed"), None, None, None, None)}

IdsAdd(data) ==
    /\ frontend = "api_ids"
    /\ Len(apiFile) < MaxTodos
    /\ get_next_id(apiFile) <= MaxId
    /\ Len(issued) < MaxIssued
    /\ LET r == api_add_todo(apiFile, data, today) IN
           /\ apiFile' = r.file /\ resp' = r.resp
           /\ issued' = IF r.resp.kind = "created"
                        THEN Append(issued, r.file[Len(r.file)].id)
                        ELSE issued
    /\ UNCHANGED <<cliFile, today, probe, frontend, inflight, served>>

IdsUpdate(todo_id, data) ==
    /\ frontend = "api_ids"
    /\ LET r == api_update_todo(apiFile, todo_id, data, today) IN
           apiFile' = r.file /\ resp' = r.resp
    /\ UNCHANGED <<cliFile, today, probe, frontend, inflight, served, issued>>

IdsDelete(todo_id) ==
    /\ frontend = "api_ids"
    /\ LET r == api_delete_todo(apiFile, todo_id) IN
           apiFile' = r.file /\ resp' = r.resp
    /\ UNCHANGED <<cliFile, today, probe, frontend, inflight, served, issued>>

IdsClearCompleted ==
    /\ frontend = "api_ids"
    /\ LET r == api_clear_completed(apiFile) IN
           apiFile' = r.file /\ resp' = r.resp
    /\ UNCHANGED <<cliFile, today, probe, frontend, inflight, served, issued>>

IdsNext ==
    \/ \E data \in IdsAddRequests : IdsAdd(data)
    \/ \E todo_id \in ApiIds, data \in IdsUpdateRequests : IdsUpdate(todo_id, data)
    \/ \E todo_id \in ApiDeleteIds : IdsDelete(todo_id)
    \/ IdsClearCompleted

IdsInit ==
    /\ frontend = "api_ids"
    /\ apiFile = <<>>
    /\ cliFile = <<>>
    /\ resp = NoResp
    /\ today = Today0
    /\ probe = NoProbe
    /\ inflight = [p \in Workers |-> Idle]
    /\ served = 0
    /\ issued = <<>>

IdsSpec == IdsInit /\ [][IdsNext]_vars

----------------------------------------------------------------------------
(* Properties.                                                             *)

\* C1: in both front-ends every persisted record has completed_at set if and
\* only if its status is completed.
C1_CompletedAtIffCompleted ==
    /\ \A i \in 1..Len(apiFile) :
           (apiFile[i].completed_at # None) <=> (apiFile[i].status = "completed")
    /\ \A i \in 1..Len(cliFile) :
           (cliFile[i].completed_at # None) <=> (cliFile[i].status = "completed")

\* C1 happens: an update has just moved a record off completed while another
\* record is completed and stamped.
C1_Witness ==
    /\ resp.op = "api_update" /\ resp.kind = "ok"
    /\ \E i, j \in 1..Len(apiFile) :
           /\ apiFile[i].status = "completed" /\ apiFile[i].completed_at # None
           /\ apiFile[j].status = "in_progress" /\ apiFile[j].completed_at = None

\* C2: no two records of a persisted collection share an id, in either front-end.
C2_UniqueIds ==
    /\ \A i, j \in 1..Len(apiFile) : apiFile[i].id = apiFile[j].id => i = j
    /\ \A i, j \in 1..Len(cliFile) : cliFile[i].id = cliFile[j].id => i = j

\* C2 happens: the API has added a record after a deletion left the ids
\* starting above 1.
C2_Witness ==
    /\ resp.op = "api_add" /\ resp.kind = "created"
    /\ Len(apiFile) >= 2
    /\ apiFile[1].id > 1

\* C3 as stated: every update that carries a status outside the four is answered
\* with the validation error and changes nothing, whatever the id.
C3_BogusStatusAlwaysValidationError ==
    \A todo_id \in ApiDeleteIds, data \in ApiUpdateRequests :
        (/\ data.status # None
         /\ data.status[1] \notin {"pending", "in_progress", "on_hold", "completed"})
        => LET r == api_update_todo(apiFile, todo_id, data, today) IN
           r.file = apiFile /\ r.resp.kind = "invalid_status"

\* C3 amended: such an update changes nothing; it is answered with the validation
\* error when the id is a record's, and with not-found when it is not.
C3_BogusStatusRejected ==
    \A todo_id \in ApiDeleteIds, data \in ApiUpdateRequests :
        (/\ data.status # None
         /\ data.status[1] \notin {"pending", "in_progress", "on_hold", "completed"})
        => LET r == api_update_todo(apiFile, todo_id, data, today) IN
           /\ r.file = apiFile
           /\ r.resp.kind = IF \E i \in 1..Len(apiFile) : apiFile[i].id = todo_id
                            THEN "invalid_status" ELSE "not_found"

\* C3 happens: an update was just refused for its status on a collection of
\* two records or more.
C3_Witness ==
    /\ resp.op = "api_update" /\ resp.kind = "invalid_status"
    /\ Len(apiFile) >= 2

\* C4: deleting an id no record has reports not-found and leaves the collection
\* as it was, in the API and in the CLI.
C4_DeleteMissingIsNoOp ==
    /\ \A todo_id \in ApiDeleteIds :
           (\A i \in 1..Len(apiFile) : apiFile[i].id # todo_id)
           => LET r == api_delete_todo(apiFile, todo_id) IN
              r.file = apiFile /\ r.resp.kind = "not_found"
    /\ \A todo_id \in CliDeleteIds :
           (\A i \in 1..Len(cliFile) : cliFile[i].id # todo_id)
           => LET r == cli_delete_todo(cliFile, todo_id) IN
              r.file = cliFile /\ r.resp.kind = "not_found"

\* C4 happens: a delete was just answered not-found on a collection of two
\* records or more.
C4_Witness ==
    /\ resp.op = "api_delete" /\ resp.kind = "not_found"
    /\ Len(apiFile) >= 2

\* C5: for status completed both classifiers return completed, whatever the date.
C5_CompletedShortCircuits ==
    (probe.called /\ probe.status = "completed")
    => /\ probe.apiTarget = Ret(Some("completed"))
       /\ probe.cliTarget = Ret(Some("completed"))

\* C5 happens: the classifier was called for a completed task whose date is no
\* calendar date.
C5_Witness ==
    /\ probe.called /\ probe.status = "completed"
    /\ probe.date = Dash(2024, 2, 30, TRUE)

\* C6: for a status other than completed and a valid date D, with T the current
\* date, days_until_target is D - T and the status is overdue below 0,
\* due_today at 0, due_soon at 1 and 2, on_track above 2.
C6_ClassifiedByDayDifference ==
    (/\ probe.called
     /\ probe.status # "completed"
     /\ probe.date.kind = "dash"
     /\ ValidYmd(probe.date.a, probe.date.b, probe.date.c))
    => LET days == Ymd2Ord(probe.date.a, probe.date.b, probe.date.c) - probe.now
           expected == IF days < 0 THEN "overdue"
                       ELSE IF days = 0 THEN "due_today"
                       ELSE IF days \in {1, 2} THEN "due_soon"
                       ELSE "on_track"
       IN  /\ probe.apiDays = Ret(Some(days))
           /\ probe.cliDays = Ret(Some(days))
           /\ probe.apiTarget = Ret(Some(expected))
           /\ probe.cliTarget = Ret(Some(expected))

\* C6 happens: a pending task due in exactly two days, across the end of
\* February, was classified after the clock had moved.
C6_Witness ==
    /\ probe.called /\ probe.status = "pending"
    /\ probe.date = Dash(2024, 3, 1, TRUE)
    /\ probe.now = Today0 + 1
    /\ probe.apiTarget = Ret(Some("due_soon"))

\* C7: for a status other than completed, a date that is empty or that does not
\* parse as YYYY-MM-DD gives no_target and no day count, and no exception leaves
\* the classifier, the listings or the summary.
C7_UnparseableIsNoTarget ==
    /\ (/\ probe.called
        /\ probe.status # "completed"
        /\ ~(probe.date.kind = "dash"
             /\ ValidYmd(probe.date.a, probe.date.b, probe.date.c)))
       => /\ probe.apiDays = Ret(None)
          /\ probe.cliDays = Ret(None)
          /\ probe.apiTarget = Ret(Some("no_target"))
          /\ probe.cliTarget = Ret(Some("no_target"))
    /\ probe.apiDays.exc = "none" /\ probe.apiTarget.exc = "none"
    /\ probe.cliDays.exc = "none" /\ probe.cliTarget.exc = "none"
    /\ api_get_todos(apiFile, today).resp.kind # "exception"
    /\ api_get_summary(apiFile, today).exc = "none"
    /\ \A args \in CliListArgs :
           cli_list_todos(cliFile, args[1], args[2], today).resp.kind # "exception"
    /\ resp.kind # "exception"

\* C7 happens: the classifier was called for a pending task whose date is a
\* number, not a text.
C7_Witness ==
    /\ probe.called /\ probe.status = "pending"
    /\ probe.date = Number(5)
    /\ probe.apiTarget = Ret(Some("no_target"))

\* C8 as stated: clear-completed removes exactly the completed records, reports
\* how many, and keeps every other record, all fields alike, in order.
C8_ClearKeepsOthersUnchanged ==
    /\ LET r == api_clear_completed(apiFile)
           kept == {i \in 1..Len(apiFile) : apiFile[i].status # "completed"}
           nth(k) == CHOOSE i \in kept : Cardinality({j \in kept : j <= i}) = k
       IN  /\ Len(r.file) = Cardinality(kept)
           /\ \A k \in 1..Len(r.file) : r.file[k] = apiFile[nth(k)]
           /\ r.resp.count = Len(apiFile) - Cardinality(kept)
    /\ LET r == cli_clear_completed(cliFile)
           kept == {i \in 1..Len(cliFile) :
                        cliFile[i].status # "completed" /\ ~cliFile[i].completed}
           nth(k) == CHOOSE i \in kept : Cardinality({j \in kept : j <= i}) = k
       IN  /\ Len(r.file) = Cardinality(kept)
           /\ \A k \in 1..Len(r.file) : r.file[k] = cliFile[nth(k)]
           /\ r.resp.count = Len(cliFile) - Cardinality(kept)

\* C8 amended: as stated for the API; in the CLI the records kept keep every
\* field but the id, and when a record was removed they are renumbered 1..N in
\* their order.
C8_ClearKeepsOthers ==
    /\ LET r == api_clear_completed(apiFile)
           kept == {i \in 1..Len(apiFile) : apiFile[i].status # "completed"}
           nth(k) == CHOOSE i \in kept : Cardinality({j \in kept : j <= i}) = k
       IN  /\ Len(r.file) = Cardinality(kept)
           /\ \A k \in 1..Len(r.file) : r.file[k] = apiFile[nth(k)]
           /\ r.resp.count = Len(apiFile) - Cardinality(kept)
    /\ LET r == cli_clear_completed(cliFile)
           kept == {i \in 1..Len(cliFile) :
                        cliFile[i].status # "completed" /\ ~cliFile[i].completed}
           nth(k) == CHOOSE i \in kept : Cardinality({j \in kept : j <= i}) = k
       IN  /\ Len(r.file) = Cardinality(kept)
           /\ \A k \in 1..Len(r.file) :
                  /\ [r.file[k] EXCEPT !.id = cliFile[nth(k)].id] = cliFile[nth(k)]
                  /\ r.file[k].id = IF Cardinality(kept) < Len(cliFile)
                                    THEN k ELSE cliFile[nth(k)].id
           /\ r.resp.count = Len(cliFile) - Cardinality(kept)

\* C8 happens: the CLI has just cleared one record and kept two, the second of
\* them a task added before the first.
C8_Witness ==
    /\ resp.op = "cli_clear" /\ resp.kind = "cleared" /\ resp.count = 1
    /\ Len(cliFile) = 2
    /\ cliFile[1].task = "b" /\ cliFile[2].task = "a"

\* C9: an accepted add leaves every earlier record as it was and appends a
\* record with the task and priority given, status pending and no completed_at.
C9_AddRoundTrip ==
    /\ \A data \in ApiAddRequests :
           (data.task # None /\ data.task[1] # "")
           => LET r == api_add_todo(apiFile, data, today)
                  new == r.file[Len(r.file)]
              IN  /\ r.resp.kind = "created"
                  /\ Len(r.file) = Len(apiFile) + 1
                  /\ SubSeq(r.file, 1, Len(apiFile)) = apiFile
                  /\ new.task = data.task[1]
                  /\ new.priority = (IF data.priority = None THEN "medium"
                                     ELSE data.priority[1])
                  /\ new.status = "pending"
                  /\ new.completed_at = None
    /\ \A args \in CliAddArgs :
           args[1] # ""
           => LET r == cli_add_todo(cliFile, args[1], args[2], args[3], args[4], today)
                  new == r.file[Len(r.file)]
              IN  /\ r.resp.kind = "added"
                  /\ Len(r.file) = Len(cliFile) + 1
                  /\ SubSeq(r.file, 1, Len(cliFile)) = cliFile
                  /\ new.task = args[1]
                  /\ new.priority = args[2]
                  /\ new.status = "pending"
                  /\ new.completed_at = None

\* C9 happens: the API has just added a task with a priority outside the usual
\* three behind a record that is completed.
C9_Witness ==
    /\ resp.op = "api_add" /\ resp.kind = "created"
    /\ Len(apiFile) >= 2
    /\ apiFile[Len(apiFile)].priority = "urgent"
    /\ apiFile[1].status = "completed"

\* C10 as stated: the summary never reports more completed effort than total
\* effort.
C10_CompletedEffortAtMostTotal ==
    LET summary == api_get_summary(apiFile, today) IN
    summary.completed_effort_hours <= summary.total_effort_hours

\* C11: the CLI listing shows exactly the displayed records, ascending by
\* (target-status rank, priority rank) with overdue 0, due_today 1, due_soon 2,
\* on_track 3, no_target 4, completed 5 and high 0, medium 1, low 2; records of
\* equal key keep their collection order, and sorting the sorted list again
\* changes nothing.
C11_ListingSortedStable ==
    \A args \in CliListArgs :
        LET r == cli_list_todos(cliFile, args[1], args[2], today)
            shown == r.resp.shown
            display == DisplayTodos(cliFile, args[1], args[2], today)
            trank == [s \in {"overdue", "due_today", "due_soon", "on_track",
                             "no_target", "completed"} |->
                         CASE s = "overdue" -> 0 [] s = "due_today" -> 1
                           [] s = "due_soon" -> 2 [] s = "on_track" -> 3
                           [] s = "no_target" -> 4 [] s = "completed" -> 5]
            prank == [p \in {"high", "medium", "low"} |->
                         CASE p = "high" -> 0 [] p = "medium" -> 1 [] p = "low" -> 2]
            \* the key of the record at each place of the displayed list
            key == [i \in 1..Len(display) |->
                       <<trank[cli_get_target_status(display[i].target_date,
                                                     display[i].status, today).val[1]],
                         prank[display[i].priority]>>]
            \* the place in the displayed list of the k-th record shown
            pos == [k \in 1..Len(shown) |->
                       CHOOSE i \in 1..Len(display) : display[i].id = shown[k]]
            sorted == [k \in 1..Len(shown) |-> display[pos[k]]]
        IN  r.resp.kind = "listed"
            => /\ Len(shown) = Len(display)
               /\ {shown[k] : k \in 1..Len(shown)}
                      = {display[i].id : i \in 1..Len(display)}
               /\ \A k, l \in 1..Len(shown) :
                      k < l
                      => \/ key[pos[k]][1] < key[pos[l]][1]
                         \/ /\ key[pos[k]][1] = key[pos[l]][1]
                            /\ key[pos[k]][2] < key[pos[l]][2]
                         \/ /\ key[pos[k]] = key[pos[l]]
                            /\ pos[k] < pos[l]
               /\ SortTodos(sorted, Len(sorted), today) = sorted

\* C11 happens: a listing of three or more records has just been printed in an
\* order other than the collection's, two of them with the same key.
C11_Witness ==
    /\ resp.op = "cli_list" /\ resp.kind = "listed"
    /\ Len(resp.shown) >= 3
    /\ \E k \in 1..(Len(resp.shown) - 1) : resp.shown[k] > resp.shown[k + 1]
    /\ \E k, l \in 1..Len(resp.shown) :
           /\ k < l
           /\ \E i, j \in 1..Len(cliFile) :
                  /\ cliFile[i].id = resp.shown[k] /\ cliFile[j].id = resp.shown[l]
                  /\ SortKey(cliFile[i], today) = SortKey(cliFile[j], today)

\* C12 as stated: an API add, an API update of an existing record, a CLI add or
\* a CLI set-effort on an existing record whose effort is neither empty nor one
\* of 0.5, 1, 2, 4, 8, 16, 24, 40 (for the CLI, nor a label of one of them) is
\* rejected with one of the 400 answers and writes nothing.
C12_DisallowedEffortRejected ==
    LET allowed == {VALID_EFFORTS[i] : i \in DOMAIN VALID_EFFORTS}
        labels == {"30m", "1h", "2h", "4h", "1d", "2d", "3d", "1w"}
        badApi(e) == e # None /\ e[1] \notin allowed \cup {""}
        badCli(e) == e \notin allowed \cup labels \cup {""}
    IN  /\ \A data \in ApiAddRequests :
               (badApi(data.effort) /\ data.task # None /\ data.task[1] # "")
               => LET r == api_add_todo(apiFile, data, today) IN
                  r.file = apiFile /\ r.resp.kind \in {"task_required", "invalid_status"}
        /\ \A data \in ApiUpdateRequests, i \in 1..Len(apiFile) :
               badApi(data.effort)
               => LET r == api_update_todo(apiFile, apiFile[i].id, data, today) IN
                  r.file = apiFile /\ r.resp.kind \in {"task_required", "invalid_status"}
        /\ \A args \in CliAddArgs :
               badCli(args[3])
               => LET r == cli_add_todo(cliFile, args[1], args[2], args[3],
                                        args[4], today) IN
                  r.file = cliFile /\ r.resp.kind # "added"
        /\ \A effort \in CliEffortArgs, i \in 1..Len(cliFile) :
               badCli(effort)
               => LET r == cli_set_effort(cliFile, cliFile[i].id, effort) IN
                  r.file = cliFile /\ r.resp.kind # "effort_set"

\* C14 as stated: no API operation changes the id of a record that stays, and
\* in the CLI no operation but delete does: add, done, effort, due and clear
\* leave the id of every record that stays as it was.
C14_OnlyCliDeleteChangesIds ==
    LET SameIds(old, new) ==
            /\ Len(new) >= Len(old)
            /\ \A i \in 1..Len(old) : new[i].id = old[i].id
        KeptIds(old, new, kept) ==
            LET nth(k) == CHOOSE i \in kept : Cardinality({j \in kept : j <= i}) = k
            IN  /\ Len(new) = Cardinality(kept)
                /\ \A k \in 1..Len(new) : new[k].id = old[nth(k)].id
    IN  /\ \A data \in ApiAddRequests :
               SameIds(apiFile, api_add_todo(apiFile, data, today).file)
        /\ \A data \in ApiUpdateRequests, todo_id \in ApiIds :
               SameIds(apiFile, api_update_todo(apiFile, todo_id, data, today).file)
        /\ \A todo_id \in ApiDeleteIds :
               KeptIds(apiFile, api_delete_todo(apiFile, todo_id).file,
                       {i \in 1..Len(apiFile) : apiFile[i].id # todo_id})
        /\ KeptIds(apiFile, api_clear_completed(apiFile).file,
                   {i \in 1..Len(apiFile) : apiFile[i].status # "completed"})
        /\ \A args \in CliAddArgs :
               SameIds(cliFile, cli_add_todo(cliFile, args[1], args[2], args[3],
                                             args[4], today).file)
        /\ \A todo_id \in CliIds :
               SameIds(cliFile, cli_complete_todo(cliFile, todo_id, today).file)
        /\ \A todo_id \in CliIds, effort \in CliEffortArgs :
               SameIds(cliFile, cli_set_effort(cliFile, todo_id, effort).file)
        /\ \A todo_id \in CliIds, target_date \in CliDateArgs :
               SameIds(cliFile, cli_set_target_date(cliFile, todo_id, target_date,
                                                    today).file)
        /\ KeptIds(cliFile, cli_clear_completed(cliFile).file,
                   {i \in 1..Len(cliFile) : ~(cliFile[i].status = "completed"
                                              \/ cliFile[i].completed)})

\* C14 amended: no API operation changes the id of a record that stays; in the
\* CLI add, done, effort and due leave every id as it was, and the operations
\* that change the id of a record that stays are delete and clear.
C14_IdsStableButCliDeleteAndClear ==
    LET SameIds(old, new) ==
            /\ Len(new) >= Len(old)
            /\ \A i \in 1..Len(old) : new[i].id = old[i].id
        KeptIds(old, new, kept) ==
            LET nth(k) == CHOOSE i \in kept : Cardinality({j \in kept : j <= i}) = k
            IN  /\ Len(new) = Cardinality(kept)
                /\ \A k \in 1..Len(new) : new[k].id = old[nth(k)].id
    IN  /\ \A data \in ApiAddRequests :
               SameIds(apiFile, api_add_todo(apiFile, data, today).file)
        /\ \A data \in ApiUpdateRequests, todo_id \in ApiIds :
               SameIds(apiFile, api_update_todo(apiFile, todo_id, data, today).file)
        /\ \A todo_id \in ApiDeleteIds :
               KeptIds(apiFile, api_delete_todo(apiFile, todo_id).file,
                       {i \in 1..Len(apiFile) : apiFile[i].id # todo_id})
        /\ KeptIds(apiFile, api_clear_completed(apiFile).file,
                   {i \in 1..Len(apiFile) : apiFile[i].status # "completed"})
        /\ \A args \in CliAddArgs :
               SameIds(cliFile, cli_add_todo(cliFile, args[1], args[2], args[3],
                                             args[4], today).file)
        /\ \A todo_id \in CliIds :
               SameIds(cliFile, cli_complete_todo(cliFile, todo_id, today).file)
        /\ \A todo_id \in CliIds, effort \in CliEffortArgs :
               SameIds(cliFile, cli_set_effort(cliFile, todo_id, effort).file)
        /\ \A todo_id \in CliIds, target_date \in CliDateArgs :
               SameIds(cliFile, cli_set_target_date(cliFile, todo_id, target_date,
                                                    today).file)
        /\ (\A i \in 1..Len(cliFile) : ~(cliFile[i].status = "completed"
                                         \/ cliFile[i].completed))
           => cli_clear_completed(cliFile).file = cliFile

\* C14 happens: the API has just deleted a record in front of two that stay,
\* and they keep the ids 2 and 3.
C14_Witness ==
    /\ resp.op = "api_delete" /\ resp.kind = "deleted"
    /\ Len(apiFile) = 2
    /\ apiFile[1].id = 2 /\ apiFile[2].id = 3

\* C15: in the CLI, after any sequence of add, done, effort, due, delete and
\* clear from the empty collection, the ids are exactly 1..N in collection
\* order.
C15_CliIdsArePositions ==
    \A i \in 1..Len(cliFile) : cliFile[i].id = i

\* C15 happens: a clear has just removed two records and left one, now the
\* first.
C15_Witness ==
    /\ resp.op = "cli_clear" /\ resp.kind = "cleared" /\ resp.count = 2
    /\ Len(cliFile) = 1
    /\ cliFile[1].id = 1

\* C16 as stated: in the CLI, when the date parser returns no result for a
\* non-empty date text given to set-target-date or to add, the operation is
\* rejected and the collection is left as it was; no stored record has a
\* target_date that is the result of a failed parse.
C16_FailedParseRejected ==
    LET failed(d) == /\ d.kind # "empty"
                     /\ parse_date(d, today).exc = "none"
                     /\ parse_date(d, today).val = NoneText
    IN  /\ \A todo_id \in CliIds, target_date \in CliDateArgs :
               failed(target_date)
               => LET r == cli_set_target_date(cliFile, todo_id, target_date, today)
                  IN  r.file = cliFile /\ r.resp.kind = "invalid_date"
        /\ \A args \in CliAddArgs :
               failed(args[4])
               => LET r == cli_add_todo(cliFile, args[1], args[2], args[3],
                                        args[4], today)
                  IN  r.file = cliFile /\ r.resp.kind # "added"
        /\ \A i \in 1..Len(cliFile) : cliFile[i].target_date # NoneText

\* C17 as stated: after any sequence of API add, update, delete and
\* clear-completed no record of the saved collection carries the field
\* days_until_target or the field target_status.
C17_DerivedFieldsNotSaved ==
    \A i \in 1..Len(apiFile) :
        /\ "days_until_target" \notin DOMAIN apiFile[i]
        /\ "target_status" \notin DOMAIN apiFile[i]

\* C13: a handler that gets to its save overwrites the file with the list it
\* loaded and its own change, whatever was saved since it loaded: after an
\* accepted add the file is the loaded list and the new record, after an
\* accepted update it is the loaded list with that one record changed, so a
\* record another request saved in between is in the file no more although
\* both requests were answered with success.
C13_SaveOverwritesFromLoadedList ==
    [][\A p \in Workers :
           (inflight[p].pc = "loaded" /\ inflight'[p].pc = "idle")
           => LET loaded == inflight[p].todos
                  req == inflight[p].req
                  kind == inflight'[p].resp.kind
                  own(k) == IF kind = "created" THEN k = Len(loaded) + 1
                            ELSE loaded[k].id = req.todo_id
              IN  /\ (req.op = "add" /\ kind = "created")
                     => /\ Len(apiFile') = Len(loaded) + 1
                        /\ SubSeq(apiFile', 1, Len(loaded)) = loaded
                        /\ apiFile'[Len(apiFile')].task = req.add.task[1]
                  /\ (req.op = "update" /\ kind = "ok")
                     => /\ Len(apiFile') = Len(loaded)
                        /\ \A k \in 1..Len(loaded) :
                               loaded[k].id # req.todo_id => apiFile'[k] = loaded[k]
                  /\ (req.op \in {"add", "update"} /\ kind \in {"created", "ok"})
                     => \A j \in 1..Len(apiFile) :
                            (\A i \in 1..Len(loaded) : loaded[i] # apiFile[j])
                            => \A k \in 1..Len(apiFile') :
                                   apiFile'[k] = apiFile[j] => own(k)]_vars

\* C13 happens: two adds are all the server was asked, both were answered 201,
\* and the file holds one record.
C13_Witness ==
    /\ frontend = "api_race"
    /\ served = 2
    /\ \A p \in Workers :
           /\ inflight[p].pc = "idle"
           /\ inflight[p].req.op = "add"
           /\ inflight[p].resp.kind = "created"
    /\ \E p, q \in Workers : inflight[p].req.add.task # inflight[q].req.add.task
    /\ Len(apiFile) = 1

\* C18: under every interleaving of the loads and saves of concurrent add,
\* update, delete and clear-completed requests, no two records of the file
\* share an id.
C18_UniqueIdsUnderRaces ==
    \A i, j \in 1..Len(apiFile) : i # j => apiFile[i].id # apiFile[j].id

\* C18 happens: an add that had loaded before another request saved has
\* overwritten that save, and the file holds two records or more.
C18_Witness ==
    /\ frontend = "api_race"
    /\ Len(apiFile) >= 2
    /\ \E p \in Workers :
           /\ inflight[p].pc = "idle" /\ inflight[p].stale
           /\ inflight[p].req.op = "add" /\ inflight[p].resp.kind = "created"

\* C19 as stated: with the API driven one request at a time, an id given to a
\* record is never given to a record created later, also after the first
\* record was deleted or cleared.
C19_IdNeverGivenTwice ==
    \A i, j \in 1..Len(issued) : issued[i] = issued[j] => i = j

\* C19 amended: the id given to a new record is greater than the id of every
\* record in the collection at that moment; it is an id given before only when
\* the record that had it, and every record with a greater id, is gone.
C19_NewIdAboveEveryIdPresent ==
    [][(frontend = "api_ids" /\ resp'.op = "api_add" /\ resp'.kind = "created")
       => LET new == apiFile'[Len(apiFile')].id IN
          /\ issued' = Append(issued, new)
          /\ \A i \in 1..Len(apiFile) : apiFile[i].id < new]_vars

\* C19 happens: an add has just been given an id that an earlier record, since
\* deleted or cleared, had, while another record is still there.
C19_Witness ==
    /\ frontend = "api_ids"
    /\ resp.op = "api_add" /\ resp.kind = "created"
    /\ Len(apiFile) >= 2
    /\ \E k \in 1..(Len(issued) - 1) : issued[k] = issued[Len(issued)]

====
